---- MODULE Spec2Model ----
(***************************************************************************)
(* Conversation / session lifecycle of hackathon-starter.                  *)
(*                                                                         *)
(*   - the Conversation record store (prisma.conversation)                 *)
(*   - the sandbox/volume provider seen through lib/moru.ts                *)
(*   - the Status Callback   POST /api/conversations/[id]/status           *)
(*   - the Conversation Endpoint   POST /api/conversations                 *)
(*   - the Client Lifecycle Controller (app/page.tsx): submit, polling,    *)
(*     pending messages, and the server as the client's requests see it    *)
(*   - buildFileTree (lib/moru.ts): the file tree of a volume              *)
(*                                                                         *)
(* Every handler is an async function: it is split at its awaits, so that  *)
(* requests interleave exactly where the event loop lets them.             *)
(***************************************************************************)
EXTENDS Integers, Sequences, FiniteSets, TLC

\* ---------------------------------------------------------------- bounds
\* Number of Conversation Endpoint requests and of Status Callback requests
\* issued in one behaviour.
MaxPosts == 2
MaxCallbacks == 2

\* ------------------------------------------------------------- constants
\* null of an id-valued field (sandboxId, volumeId, conversationId).
Null == 0
\* null of a string-valued field (sessionId, errorMessage).
NullStr == "<null>"
\* JavaScript falsy strings: `x || y` takes y for them.
Falsy == {NullStr, ""}

Posts == 1..MaxPosts
Callbacks == 1..MaxCallbacks
\* Row ids, sandbox ids and volume ids are handed out fresh; every one comes
\* from a Conversation Endpoint request, so MaxPosts bounds them all.
ConvIds == 1..MaxPosts
\* An id no row has.
UnknownId == MaxPosts + 1

TerminalStatuses == {"completed", "error"}
\* Request bodies of the Status Callback, {status, errorMessage?, sessionId?}:
\* a success and a failure as the agent reports them, and the two bodies the
\* handler accepts as well: an error without a message, a completion with one.
Bodies ==
  { [status |-> "completed", errorMessage |-> NullStr, sessionId |-> "s1"],
    [status |-> "error",     errorMessage |-> "boom",  sessionId |-> NullStr],
    [status |-> "error",     errorMessage |-> NullStr, sessionId |-> "s2"],
    [status |-> "completed", errorMessage |-> "boom",  sessionId |-> ""] }

VARIABLES
  conv,       \* record store: row id -> Conversation row
  nConv,      \* rows created so far (row ids are 1..nConv)
  sandboxes,  \* provider: sandbox id -> [conv, volume, resume, alive, agent, stdin]
  volumes,    \* provider: volume id -> conversation id its name carries
  post,       \* Conversation Endpoint requests
  cb,         \* Status Callback requests
  client,     \* app/page.tsx: the state of Home (its useState cells)
  submit,     \* app/page.tsx: handleSubmit calls and their fetch
  poll,       \* app/page.tsx: poll ticks and their fetch
  srv,        \* the rows and session logs behind the client's requests
  now,        \* Date.now() of the browser
  ft          \* lib/moru.ts: one call of buildFileTree, its volume and result

\* The server's state and the client's (with the server its requests see).
svars == <<conv, nConv, sandboxes, volumes, post, cb>>
cvars == <<client, submit, poll, srv, now>>
tvars == <<ft>>
vars == <<conv, nConv, sandboxes, volumes, post, cb, client, submit, poll, srv, now, ft>>

\* ------------------------------------------------------------ the store
\* A row with every optional column null.
NewRow == [status |-> "idle", sessionId |-> NullStr, sandboxId |-> Null,
           volumeId |-> Null, errorMessage |-> NullStr]

Exists(id) == id \in 1..nConv

\* a ?? b in place of a || b: the empty string counts as a value.
OrElse_Nullish(a, b) == IF a = NullStr THEN b ELSE a

\* a || b on strings
OrElse(a, b) == IF a \in Falsy THEN b ELSE a

Live == {s \in 1..Len(sandboxes) : sandboxes[s].alive}
LiveOf(c) == {s \in Live : sandboxes[s].conv = c}

\* --------------------------------------------------------- Status Callback
IdleCb == [pc |-> "idle", id |-> Null, status |-> "completed",
           errorMessage |-> NullStr, sessionId |-> NullStr,
           snapSandbox |-> Null, snapSession |-> NullStr,
           wrote |-> FALSE, killOutcome |-> "none",
           resp |-> 0, after |-> {}, from |-> Null]

CbDone == {q \in Callbacks : cb[q].pc = "done"}
CbInFlight == {q \in Callbacks : cb[q].pc \notin {"idle", "done"}}

\* The handler without its `if (!conversation)` return.
CallbackFindResult_NoLookupCheck(p, id) ==
  [pc |-> "found", resp |-> 0,
   snapSandbox |-> IF Exists(id) THEN conv[id].sandboxId ELSE Null,
   snapSession |-> IF Exists(id) THEN conv[id].sessionId ELSE NullStr]

\* The request arrives: body parsed, findUnique awaited.
\* Not found: 404 and nothing else.
CallbackFindResult(p, id) ==
  IF Exists(id)
  THEN [pc |-> "found", resp |-> 0,
        snapSandbox |-> conv[id].sandboxId, snapSession |-> conv[id].sessionId]
  ELSE [pc |-> "done", resp |-> 404,
        snapSandbox |-> Null, snapSession |-> NullStr]

\* from: the sandbox whose agent posted the request (nothing in the request
\* says so: the handler cannot tell); kept while the request is handled.
CallbackFind(p, id, status, errorMessage, sessionId, from) ==
  /\ cb[p].pc = "idle"
  /\ \A q \in Callbacks : q < p => cb[q].pc # "idle"
  /\ LET r == CallbackFindResult(p, id) IN
     cb' = [cb EXCEPT ![p] = [@ EXCEPT !.pc = r.pc, !.resp = r.resp,
                                !.id = id, !.status = status,
                                !.errorMessage = errorMessage,
                                !.sessionId = sessionId,
                                !.snapSandbox = r.snapSandbox,
                                !.snapSession = r.snapSession,
                                !.after = CbDone,
                                !.from = IF r.pc = "done" THEN Null ELSE from]]
  /\ UNCHANGED <<conv, nConv, sandboxes, volumes, post>>
  /\ UNCHANGED cvars
  /\ UNCHANGED tvars

\* The update without `sandboxId: null`: the row keeps the sandboxId read.
CallbackData_KeepsSandbox(p) ==
  [status |-> cb[p].status,
   errorMessage |-> OrElse(cb[p].errorMessage, NullStr),
   sessionId |-> OrElse(cb[p].sessionId, cb[p].snapSession),
   sandboxId |-> cb[p].snapSandbox]

\* The update with `sessionId` as the body has it, no fallback to the row's.
CallbackData_SessionOverwritten(p) ==
  [status |-> cb[p].status,
   errorMessage |-> OrElse(cb[p].errorMessage, NullStr),
   sessionId |-> cb[p].sessionId,
   sandboxId |-> Null]

\* data of prisma.conversation.update
CallbackData(p) ==
  [status |-> cb[p].status,
   errorMessage |-> OrElse(cb[p].errorMessage, NullStr),
   sessionId |-> OrElse(cb[p].sessionId, cb[p].snapSession),
   sandboxId |-> Null]

\* killSandbox called without the `if (conversation.sandboxId)` guard.
CallbackKills_Always(p) == TRUE

\* Whether the handler calls killSandbox after the update: only for a
\* sandboxId the row it read carried.
CallbackKills(p) == cb[p].snapSandbox # Null

\* Once the update is awaited the body's errorMessage and sessionId and the
\* sessionId read are used no more: the request forgets them.
CallbackUpdate(p) ==
  /\ cb[p].pc = "found"
  /\ \/ /\ conv' = [conv EXCEPT ![cb[p].id] =
                      [@ EXCEPT !.status = CallbackData(p).status,
                                !.errorMessage = CallbackData(p).errorMessage,
                                !.sessionId = CallbackData(p).sessionId,
                                !.sandboxId = CallbackData(p).sandboxId]]
        /\ cb' = [cb EXCEPT ![p] =
                    [@ EXCEPT !.wrote = TRUE,
                              !.errorMessage = NullStr, !.sessionId = NullStr,
                              !.snapSession = NullStr,
                              !.pc = IF CallbackKills(p) THEN "kill" ELSE "done",
                              !.from = IF CallbackKills(p) THEN @ ELSE Null,
                              !.resp = IF CallbackKills(p) THEN @ ELSE 200]]
     \/ \* the update rejects: caught by the handler, 500
        /\ cb' = [cb EXCEPT ![p] = [@ EXCEPT !.pc = "done", !.resp = 500,
                                             !.from = Null,
                                             !.errorMessage = NullStr,
                                             !.sessionId = NullStr,
                                             !.snapSession = NullStr]]
        /\ UNCHANGED conv
  /\ UNCHANGED <<nConv, sandboxes, volumes, post>>
  /\ UNCHANGED cvars
  /\ UNCHANGED tvars

\* killSandbox without its try/catch.
KillSandboxThrows_Rethrown == TRUE

\* killSandbox wraps Sandbox.kill in try/catch: whether a throw of
\* Sandbox.kill reaches the caller.
KillSandboxThrows == FALSE

\* Response of the handler after killSandbox, given that Sandbox.kill threw.
CallbackKillResp(threw) == IF threw /\ KillSandboxThrows THEN 500 ELSE 200

CallbackKill(p) ==
  /\ cb[p].pc = "kill"
  /\ LET s == cb[p].snapSandbox IN
     \/ /\ s \in Live
        /\ sandboxes' = [sandboxes EXCEPT ![s].alive = FALSE]
        /\ cb' = [cb EXCEPT ![p] = [@ EXCEPT !.pc = "done",
                                             !.killOutcome = "killed",
                                             !.from = Null,
                                             !.resp = CallbackKillResp(FALSE)]]
     \/ \* Sandbox.kill throws: the sandbox is already dead, or the provider
        \* call failed and the sandbox stays as it is
        /\ UNCHANGED sandboxes
        /\ cb' = [cb EXCEPT ![p] = [@ EXCEPT !.pc = "done",
                                             !.killOutcome = "failed",
                                             !.from = Null,
                                             !.resp = CallbackKillResp(TRUE)]]
  /\ UNCHANGED <<conv, nConv, volumes, post>>
  /\ UNCHANGED cvars
  /\ UNCHANGED tvars

\* Who posts a callback: the agent of a sandbox, to the CALLBACK_URL that
\* createSandbox started it with; or anybody, to an id no row has.
CallbackIds ==
  {sandboxes[s].conv : s \in {t \in 1..Len(sandboxes) : sandboxes[t].agent}}
    \cup {UnknownId}

\* The sandboxes whose agent posts to the callback URL of conversation id.
Senders(id) ==
  IF id = UnknownId THEN {Null}
  ELSE {s \in 1..Len(sandboxes) : sandboxes[s].agent /\ sandboxes[s].conv = id}

Callback(p) ==
  \/ \E id \in CallbackIds, body \in Bodies :
       \E from \in Senders(id) :
         CallbackFind(p, id, body.status, body.errorMessage, body.sessionId, from)
  \/ CallbackUpdate(p)
  \/ CallbackKill(p)

\* ------------------------------------------------------------- lib/moru.ts
\* createVolume handing back the latest volume there is instead of a new one.
CreateVolumeId_Latest == IF Len(volumes) = 0 THEN Len(volumes) + 1 ELSE Len(volumes)

\* createVolume(conversationId): Volume.create; the new volume's id.
CreateVolumeId == Len(volumes) + 1

\* createSandbox that drops its sessionId argument: RESUME_SESSION_ID is "".
CreateSandbox_NoResume(volumeId, conversationId, sessionId) ==
  [conv |-> conversationId, volume |-> volumeId, resume |-> "",
   alive |-> TRUE, agent |-> TRUE, stdin |-> 0]

\* createSandbox(volumeId, conversationId, sessionId): the sandbox that
\* Sandbox.create makes and the environment its agent is started with.
CreateSandbox(volumeId, conversationId, sessionId) ==
  [conv |-> conversationId,            \* CALLBACK_URL
   volume |-> volumeId,                \* volumeId mounted
   resume |-> OrElse(sessionId, ""),   \* RESUME_SESSION_ID
   alive |-> TRUE, agent |-> TRUE, stdin |-> 0]

\* sendToAgent writing its message twice.
SendToAgent_Twice(s) == [sandboxes EXCEPT ![s].stdin = @ + 2]

\* sendToAgent(sandbox, pid, message): one sendStdin
SendToAgent(s) == [sandboxes EXCEPT ![s].stdin = @ + 1]

\* ---------------------------------------------------- Conversation Endpoint
IdlePost == [pc |-> "idle", cid |-> Null, conv |-> Null, volumeId |-> Null,
             sessionId |-> NullStr, sb |-> Null, created |-> FALSE,
             resp |-> 0, failedAt |-> "none", sent |-> 0]

\* A rejected await: caught, 500 with the message; the request's locals go.
Fail(p, at) == [post EXCEPT ![p] = [@ EXCEPT !.pc = "done", !.resp = 500,
                                             !.failedAt = at,
                                             !.volumeId = Null,
                                             !.sessionId = NullStr]]

\* The row created as running, before anything is provisioned.
CreatedRow_Running == [NewRow EXCEPT !.status = "running"]

\* The row as the endpoint creates it: not running before a session is there.
CreatedRow == [NewRow EXCEPT !.status = "idle"]

\* No conversationId: a new row. Its id names the volume and the callback
\* URL, so the row is there before either is provisioned.
PostCreate(p) ==
  /\ post[p].pc = "idle"
  /\ \A q \in Posts : q < p => post[q].pc # "idle"
  /\ nConv' = nConv + 1
  /\ conv' = [conv EXCEPT ![nConv + 1] = CreatedRow]
  /\ post' = [post EXCEPT ![p] = [@ EXCEPT !.pc = "volume", !.conv = nConv + 1]]
  /\ UNCHANGED <<sandboxes, volumes, cb>>
  /\ UNCHANGED cvars
  /\ UNCHANGED tvars

\* conversationId given: 404 when no row has it. With an active session the
\* message goes to it; with none a session is provisioned on the row's volume.
PostContinue(p, cid) ==
  /\ post[p].pc = "idle"
  /\ \A q \in Posts : q < p => post[q].pc # "idle"
  /\ IF ~Exists(cid)
     THEN post' = [post EXCEPT ![p] = [@ EXCEPT !.pc = "done", !.cid = cid,
                                                !.resp = 404]]
     ELSE post' = [post EXCEPT ![p] =
                     [@ EXCEPT !.cid = cid, !.conv = cid,
                               !.volumeId = conv[cid].volumeId,
                               !.sessionId = conv[cid].sessionId,
                               !.sb = conv[cid].sandboxId,
                               !.pc = IF conv[cid].sandboxId = Null
                                      THEN "sandbox" ELSE "send"]]
  /\ UNCHANGED <<conv, nConv, sandboxes, volumes, cb>>
  /\ UNCHANGED cvars
  /\ UNCHANGED tvars

PostVolume(p) ==
  /\ post[p].pc = "volume"
  /\ \/ /\ volumes' = Append(volumes, post[p].conv)
        /\ conv' = [conv EXCEPT ![post[p].conv].volumeId = CreateVolumeId]
        /\ post' = [post EXCEPT ![p] = [@ EXCEPT !.pc = "sandbox",
                                                 !.volumeId = CreateVolumeId]]
     \/ \* Volume.create rejects
        /\ post' = Fail(p, "volume")
        /\ UNCHANGED <<conv, volumes>>
  /\ UNCHANGED <<nConv, sandboxes, cb>>
  /\ UNCHANGED cvars
  /\ UNCHANGED tvars

PostSandbox(p) ==
  /\ post[p].pc = "sandbox"
  /\ LET new == CreateSandbox(post[p].volumeId, post[p].conv, post[p].sessionId)
         id == Len(sandboxes) + 1 IN
     \/ /\ sandboxes' = Append(sandboxes, new)
        /\ post' = [post EXCEPT ![p] = [@ EXCEPT !.pc = "send", !.sb = id,
                                                 !.created = TRUE]]
     \/ \* Sandbox.create rejects (or ANTHROPIC_API_KEY is not set)
        /\ post' = Fail(p, "sandbox")
        /\ UNCHANGED sandboxes
     \/ \* Sandbox.create succeeded and a commands.run rejects: createSandbox
        \* throws and the sandbox it made is left running without an agent
        /\ sandboxes' = Append(sandboxes, [new EXCEPT !.agent = FALSE])
        /\ post' = Fail(p, "sandbox")
  /\ UNCHANGED <<conv, nConv, volumes, cb>>
  /\ UNCHANGED cvars
  /\ UNCHANGED tvars

PostSend(p) ==
  /\ post[p].pc = "send"
  /\ \/ /\ post[p].sb \in Live
        /\ sandboxes[post[p].sb].agent
        /\ sandboxes' = SendToAgent(post[p].sb)
        /\ post' = [post EXCEPT ![p] =
                      [@ EXCEPT !.pc = "mark", !.volumeId = Null,
                                !.sessionId = NullStr,
                                !.sent = @ + SendToAgent(post[p].sb)[post[p].sb].stdin
                                           - sandboxes[post[p].sb].stdin]]
     \/ \* sendStdin rejects
        /\ post' = Fail(p, "send")
        /\ UNCHANGED sandboxes
  /\ UNCHANGED <<conv, nConv, volumes, cb>>
  /\ UNCHANGED cvars
  /\ UNCHANGED tvars

PostMark(p) ==
  /\ post[p].pc = "mark"
  /\ conv' = [conv EXCEPT ![post[p].conv] =
                [@ EXCEPT !.status = "running", !.sandboxId = post[p].sb]]
  /\ post' = [post EXCEPT ![p] = [@ EXCEPT !.pc = "done", !.resp = 200]]
  /\ UNCHANGED <<nConv, sandboxes, volumes, cb>>
  /\ UNCHANGED cvars
  /\ UNCHANGED tvars

\* The conversationId a caller can send: one that a 200 answer has returned
\* (the client keeps data.conversationId and sends it back), or one no row has.
KnownIds ==
  {post[q].conv : q \in {r \in Posts : post[r].pc = "done" /\ post[r].resp = 200}}
    \cup {UnknownId}

Post(p) ==
  \/ PostCreate(p)
  \/ \E cid \in KnownIds : PostContinue(p, cid)
  \/ PostVolume(p)
  \/ PostSandbox(p)
  \/ PostSend(p)
  \/ PostMark(p)

\* ---------------------------------------------------------------- provider
\* The provider's timeout reported into the row, as if the system noticed it.
SandboxTimeout_MarksError(s) ==
  /\ s \in Live
  /\ sandboxes' = [sandboxes EXCEPT ![s].alive = FALSE]
  /\ conv' = [conv EXCEPT ![sandboxes[s].conv].status = "error"]
  /\ UNCHANGED <<nConv, volumes, post, cb>>
  /\ UNCHANGED cvars
  /\ UNCHANGED tvars

\* The provider ends a sandbox on its own when its 30 minutes are over.
SandboxTimeout(s) ==
  /\ s \in Live
  /\ sandboxes' = [sandboxes EXCEPT ![s].alive = FALSE]
  /\ UNCHANGED <<conv, nConv, volumes, post, cb>>
  /\ UNCHANGED cvars
  /\ UNCHANGED tvars

\* ====================================================== app/page.tsx: Home
\* handleSubmit calls in one behaviour, and poll requests in flight at one
\* time (setInterval does not wait for the previous tick's fetch).
MaxSubmits == 2
MaxPolls == 2

Submits == 1..MaxSubmits
PollSlots == 1..MaxPolls
\* What the user types.
Contents == {"a", "b"}
\* Rows the client's submits can create.
ClientConvIds == 1..MaxSubmits

\* `pending-${Date.now()}`
PendingId(t) == <<"pending", t>>
\* uuid of the i-th entry of the session log of conversation c.
EntryUuid(c, i) == <<"entry", c, i>>

\* useState initial values; pollInterval is the interval of the polling
\* effect (none before the first effect run sets one).
InitClient ==
  [conversationId |-> Null, status |-> "idle", serverMessages |-> <<>>,
   pendingMessages |-> <<>>, errorMessage |-> NullStr,
   isSubmitting |-> FALSE, pollInterval |-> FALSE]

\* The polling effect that sets the interval whatever the status is.
PollingEffect_IgnoresStatus(c) ==
  [c EXCEPT !.pollInterval = (c.conversationId # Null)]

\* useEffect(..., [conversationId, status]): the cleanup clears the interval,
\* then `if (!conversationId || status !== "running") return;` and setInterval.
PollingEffect(c) ==
  [c EXCEPT !.pollInterval = (c.conversationId # Null /\ c.status = "running")]

\* const messages = [...serverMessages, ...pendingMessages.map(...)]
Messages ==
  LET sm == client.serverMessages
      pm == client.pendingMessages
      parent == IF Len(sm) > 0 THEN sm[Len(sm)].uuid ELSE <<"null">>
  IN  [i \in 1..Len(sm) |-> [type |-> "server", uuid |-> sm[i].uuid,
                             content |-> sm[i].content]]
      \o [i \in 1..Len(pm) |-> [type |-> "user", uuid |-> pm[i].id,
                                content |-> pm[i].content,
                                parentUuid |-> parent]]

IdleSubmit == [pc |-> "idle", pendingId |-> <<"null">>, content |-> "",
               conversationId |-> Null, ok |-> FALSE, data |-> Null,
               error |-> NullStr]
DoneSubmit == [IdleSubmit EXCEPT !.pc = "done"]

IdlePoll == [pc |-> "idle", id |-> Null, status |-> "idle",
             errorMessage |-> NullStr, messages |-> <<>>, read |-> "none",
             failed |-> FALSE]

\* prev => [pendingMsg, ...prev]
AddPending_Prepend(prev, m) == <<m>> \o prev

\* setPendingMessages((prev) => [...prev, pendingMsg])
AddPending(prev, m) == Append(prev, m)

\* prev.filter by the content of the message instead of its id.
RemovePending_ByContent(prev, pendingId, content) ==
  SelectSeq(prev, LAMBDA m : m.content # content)

\* setPendingMessages((prev) => prev.filter((m) => m.id !== pendingId))
RemovePending(prev, pendingId, content) ==
  SelectSeq(prev, LAMBDA m : m.id # pendingId)

\* handleSubmit up to its fetch. The form is disabled while status is
\* "running" (disabled={status === "running"}); handleSubmit itself checks
\* nothing, so a second submit may start while the first is in flight. Two
\* submits of one user are more than a millisecond apart: Date.now() differs.
HandleSubmit(k, content) ==
  /\ submit[k].pc = "idle"
  /\ \A i \in Submits : i < k => submit[i].pc # "idle"
  /\ client.status # "running"
  /\ now' = now + 1
  /\ client' = PollingEffect(
       [client EXCEPT !.isSubmitting = TRUE, !.errorMessage = NullStr,
                      !.pendingMessages =
                         AddPending(@, [id |-> PendingId(now'),
                                        content |-> content,
                                        timestamp |-> now'])])
  /\ submit' = [submit EXCEPT ![k] =
                  [@ EXCEPT !.pc = "sent", !.pendingId = PendingId(now'),
                            !.content = content,
                            !.conversationId = client.conversationId]]
  /\ UNCHANGED <<poll, srv>>
  /\ UNCHANGED svars
  /\ UNCHANGED tvars

\* handleSubmit after its fetch. response.ok: setConversationId, setStatus
\* ("running"). Otherwise the throw is caught: the pending message of this
\* call is filtered out and the error text is stored. finally: isSubmitting.
SubmitApplyStatus_ErrorOnFailure(k) ==
  IF submit[k].ok THEN "running" ELSE "error"

SubmitApplyStatus(k) == IF submit[k].ok THEN "running" ELSE client.status

SubmitApply(k) ==
  /\ submit[k].pc = "answered"
  /\ client' = PollingEffect(
       IF submit[k].ok
       THEN [client EXCEPT !.conversationId = submit[k].data,
                           !.status = SubmitApplyStatus(k),
                           !.isSubmitting = FALSE]
       ELSE [client EXCEPT !.pendingMessages =
                              RemovePending(@, submit[k].pendingId,
                                            submit[k].content),
                           !.status = SubmitApplyStatus(k),
                           !.errorMessage =
                              OrElse(submit[k].error, "Failed to send message"),
                           !.isSubmitting = FALSE])
  /\ submit' = [submit EXCEPT ![k] = DoneSubmit]
  /\ UNCHANGED <<poll, srv, now>>
  /\ UNCHANGED svars
  /\ UNCHANGED tvars

\* One tick of the interval: the fetch of /api/conversations/${conversationId}
\* with the conversationId of the effect's closure.
PollTick(j) ==
  /\ client.pollInterval
  /\ poll[j].pc = "idle"
  /\ \A i \in PollSlots : i < j => poll[i].pc # "idle"
  /\ poll' = [poll EXCEPT ![j] = [@ EXCEPT !.pc = "sent", !.failed = FALSE,
                                           !.id = client.conversationId]]
  /\ UNCHANGED <<client, submit, srv, now>>
  /\ UNCHANGED svars
  /\ UNCHANGED tvars

\* A poll that never clears the pending messages.
PendingAfterPoll_Keeps(prev, status) == prev

\* if (data.status === "completed" || data.status === "error")
\*   setPendingMessages([])
PendingAfterPoll(prev, status) ==
  IF status \in TerminalStatuses THEN <<>> ELSE prev

\* A poll whose status is not taken over.
PollStatus_Ignored(prev, status) == prev

\* setStatus(data.status)
PollStatus(prev, status) == status

\* if (response.ok) { setServerMessages(data.messages); terminal status:
\* setPendingMessages([]); setStatus(data.status); setErrorMessage(
\* data.errorMessage || null) }
PollApply(j) ==
  /\ poll[j].pc = "answered"
  /\ client' = PollingEffect(
       [client EXCEPT !.serverMessages = poll[j].messages,
                      !.pendingMessages = PendingAfterPoll(@, poll[j].status),
                      !.status = PollStatus(@, poll[j].status),
                      !.errorMessage = OrElse(poll[j].errorMessage, NullStr)])
  /\ poll' = [poll EXCEPT ![j] = IdlePoll]
  /\ UNCHANGED <<submit, srv, now>>
  /\ UNCHANGED svars
  /\ UNCHANGED tvars

\* A failed poll that stores an error text and stops the polling.
PollFail_Surfaces(j) ==
  /\ poll[j].pc \in {"sent", "half"}
  /\ poll' = [poll EXCEPT ![j] = [IdlePoll EXCEPT !.failed = TRUE]]
  /\ client' = [client EXCEPT !.errorMessage = "Polling error",
                              !.pollInterval = FALSE]
  /\ UNCHANGED <<submit, srv, now>>
  /\ UNCHANGED svars
  /\ UNCHANGED tvars

\* The fetch throws (caught, logged) or the response is not ok: no state is
\* set. (A slot is "answered" only by a response that is ok; failed marks
\* the slot of a failed request until the next tick takes it.)
PollFail(j) ==
  /\ poll[j].pc \in {"sent", "half"}
  /\ poll' = [poll EXCEPT ![j] = [IdlePoll EXCEPT !.failed = TRUE]]
  /\ UNCHANGED <<client, submit, srv, now>>
  /\ UNCHANGED svars
  /\ UNCHANGED tvars

\* ------------------------------------- the server behind the client's fetch
\* One conversation as the client's requests see it: its row's status and
\* errorMessage, the session log in its volume, and the stdin of its agent.
NoRow == [exists |-> FALSE, status |-> "idle", errorMessage |-> NullStr,
          log |-> <<>>, stdin |-> <<>>]

NextRow == Cardinality({c \in ClientConvIds : srv[c].exists}) + 1

\* POST /api/conversations as its caller sees it (its steps are Post* above):
\* answered 200 the row is running and the content is in the agent's stdin;
\* otherwise the answer carries {error} or no body the client can use.
ServeSubmit(k) ==
  /\ submit[k].pc = "sent"
  /\ LET c == IF submit[k].conversationId = Null THEN NextRow
              ELSE submit[k].conversationId
         m == [of |-> submit[k].pendingId, content |-> submit[k].content]
     IN \/ /\ srv' = [srv EXCEPT ![c] =
                        [@ EXCEPT !.exists = TRUE, !.status = "running",
                                  !.stdin = Append(@, m)]]
           /\ submit' = [submit EXCEPT ![k] =
                           [@ EXCEPT !.pc = "answered", !.ok = TRUE,
                                     !.data = c]]
        \/ /\ \E e \in {"boom", NullStr} :
                submit' = [submit EXCEPT ![k] =
                             [@ EXCEPT !.pc = "answered", !.ok = FALSE,
                                       !.error = e]]
           /\ UNCHANGED srv
  /\ UNCHANGED <<client, poll, now>>
  /\ UNCHANGED svars
  /\ UNCHANGED tvars

\* The agent takes its next input and appends it to the session log.
AgentLog(c) ==
  /\ srv[c].exists
  /\ srv[c].stdin # <<>>
  /\ LET m == Head(srv[c].stdin) IN
     srv' = [srv EXCEPT ![c] =
               [@ EXCEPT !.stdin = Tail(@),
                         !.log = Append(@, [uuid |-> EntryUuid(c, Len(@) + 1),
                                            content |-> m.content,
                                            of |-> m.of])]]
  /\ UNCHANGED <<client, submit, poll, now>>
  /\ UNCHANGED svars
  /\ UNCHANGED tvars

\* The agent has consumed its input and reports: the Status Callback (above)
\* writes status and errorMessage || null into the row.
AgentCallback(c, status, errorMessage) ==
  /\ srv[c].exists
  /\ srv[c].status = "running"
  /\ srv[c].stdin = <<>>
  /\ srv' = [srv EXCEPT ![c] =
               [@ EXCEPT !.status = status,
                         !.errorMessage = OrElse(errorMessage, NullStr)]]
  /\ UNCHANGED <<client, submit, poll, now>>
  /\ UNCHANGED svars
  /\ UNCHANGED tvars

\* GET /api/conversations/[id]: status and errorMessage are read from the
\* row, messages from the session file; two reads, in either order.
GetReadRow(j) ==
  /\ poll[j].pc \in {"sent", "half"}
  /\ poll[j].read # "row"
  /\ poll' = [poll EXCEPT ![j] =
                [@ EXCEPT !.status = srv[poll[j].id].status,
                          !.errorMessage = srv[poll[j].id].errorMessage,
                          !.read = IF @ = "none" THEN "row" ELSE "none",
                          !.pc = IF @ = "sent" THEN "half" ELSE "answered"]]
  /\ UNCHANGED <<client, submit, srv, now>>
  /\ UNCHANGED svars
  /\ UNCHANGED tvars

GetReadLog(j) ==
  /\ poll[j].pc \in {"sent", "half"}
  /\ poll[j].read # "log"
  /\ poll' = [poll EXCEPT ![j] =
                [@ EXCEPT !.messages = srv[poll[j].id].log,
                          !.read = IF @ = "none" THEN "log" ELSE "none",
                          !.pc = IF @ = "sent" THEN "half" ELSE "answered"]]
  /\ UNCHANGED <<client, submit, srv, now>>
  /\ UNCHANGED svars
  /\ UNCHANGED tvars

\* ================================================ lib/moru.ts: buildFileTree
\* Entries of one listing, and the largest maxDepth a call is given.
MaxEntries == 3
MaxTreeDepth == 2

\* File names, and their place in the order of localeCompare
\* ("a" < "B" < "c" < "D"; by code units "B" and "D" come first).
Names == {"a", "B", "c", "D"}
LocaleRank ==
  [n \in Names |->
     IF n = "a" THEN 1 ELSE IF n = "B" THEN 2 ELSE IF n = "c" THEN 3 ELSE 4]
Types == {"file", "directory"}

\* What volume.listFiles returns for a directory: entries with distinct
\* names, in the provider's order. Every directory of the volume lists the
\* same entries: a volume whose directories nest without end, so that only
\* maxDepth ends the descent.
Listings ==
  {l \in UNION {[1..n -> [name : Names, type : Types]] : n \in 0..MaxEntries} :
     \A i, k \in 1..Len(l) : i # k => l[i].name # l[k].name}

\* Paths are the names from the root down; "/" is <<>>. The directories
\* whose listFiles may reject.
FailCandidates == {<<>>, <<"a">>, <<"B", "a">>}

\* volume.listFiles(currentPath)
ListFiles(shape, fail, currentPath) ==
  [ok |-> currentPath \notin fail,
   files |-> [i \in 1..Len(shape) |->
                [name |-> shape[i].name, type |-> shape[i].type,
                 path |-> Append(currentPath, shape[i].name)]]]

\* The comparator without its two directory tests.
Compare_NameOnly(a, b) == LocaleRank[a.name] - LocaleRank[b.name]

\* (a, b) => directory before non-directory, else a.name.localeCompare(b.name)
Compare(a, b) ==
  IF a.type = "directory" /\ b.type # "directory" THEN -1
  ELSE IF a.type # "directory" /\ b.type = "directory" THEN 1
  ELSE LocaleRank[a.name] - LocaleRank[b.name]

\* result.sort(comparator): a stable sort, here by insertion.
RECURSIVE Insert(_, _)
Insert(sorted, x) ==
  IF sorted = <<>> THEN <<x>>
  ELSE IF Compare(x, Head(sorted)) < 0 THEN <<x>> \o sorted
       ELSE <<Head(sorted)>> \o Insert(Tail(sorted), x)

RECURSIVE SortNodes(_)
SortNodes(result) ==
  IF result = <<>> THEN <<>>
  ELSE Insert(SortNodes(SubSeq(result, 1, Len(result) - 1)), result[Len(result)])

\* The guard that lets one more level through.
DepthExceeded_OffByOne(depth, maxDepth) == depth > maxDepth + 1

\* if (depth > maxDepth) return [];
DepthExceeded(depth, maxDepth) == depth > maxDepth

\* const node = { name, type, size, path }, with node.children for a
\* directory; a file has none (hasChildren FALSE).
Node(f, children) ==
  [name |-> f.name, type |-> f.type, path |-> f.path,
   hasChildren |-> f.type = "directory", children |-> children]

NoCall == [active |-> FALSE, path |-> <<>>, depth |-> 0]

\* One call of buildFileTree: its volume (shape, fail) and maxDepth, the
\* buildNode call about to start (call), the buildNode calls inside their
\* loop (stack: the listing, the index of the next entry, the nodes so far),
\* the tree returned, and the depths at which listFiles was called.
IdleTree == [pc |-> "idle", shape |-> <<>>, fail |-> {}, maxDepth |-> 0,
             call |-> NoCall, stack |-> <<>>, result |-> <<>>, listed |-> {}]

\* A call with its volume and its maxDepth, awaiting Volume.get.
TreeCalls ==
  {[IdleTree EXCEPT !.pc = "get", !.shape = l, !.fail = f, !.maxDepth = d] :
     l \in Listings, f \in SUBSET FailCandidates, d \in 0..MaxTreeDepth}

\* buildFileTree is called.
CallTree ==
  /\ ft.pc = "idle"
  /\ ft' \in TreeCalls
  /\ UNCHANGED svars
  /\ UNCHANGED cvars

\* Volume.get resolves: return buildNode(path, 0)
VolumeGet ==
  /\ ft.pc = "get"
  /\ ft' = [ft EXCEPT !.pc = "run",
                      !.call = [active |-> TRUE, path |-> <<>>, depth |-> 0]]
  /\ UNCHANGED svars
  /\ UNCHANGED cvars

\* Volume.get rejects: buildFileTree rejects before any listing.
BuildTreeNoVolume ==
  /\ ft.pc = "get"
  /\ ft' = [ft EXCEPT !.pc = "rejected"]
  /\ UNCHANGED svars
  /\ UNCHANGED cvars

\* A buildNode call returns v: to buildFileTree's caller from the outermost
\* call, else as node.children of the entry its caller is at, which is then
\* pushed (result.push(node)).
Deliver(t, v) ==
  IF t.stack = <<>>
  THEN [t EXCEPT !.pc = "returned", !.call = NoCall, !.result = v]
  ELSE LET top == t.stack[Len(t.stack)] IN
       [t EXCEPT !.call = NoCall,
                 !.stack[Len(t.stack)] =
                   [top EXCEPT !.result = Append(@, Node(top.files[top.i], v)),
                               !.i = @ + 1]]

\* buildNode(currentPath, depth) starts: [] past maxDepth; else
\* volume.listFiles(currentPath), [] if it rejects (catch), else the loop
\* over its entries begins.
BuildNodeCall ==
  /\ ft.pc = "run"
  /\ ft.call.active
  /\ LET l == ListFiles(ft.shape, ft.fail, ft.call.path) IN
       IF DepthExceeded(ft.call.depth, ft.maxDepth)
       THEN ft' = Deliver(ft, <<>>)
       ELSE IF ~l.ok
       THEN ft' = [Deliver(ft, <<>>) EXCEPT !.listed = @ \cup {ft.call.depth}]
       ELSE ft' = [ft EXCEPT !.call = NoCall,
                             !.listed = @ \cup {ft.call.depth},
                             !.stack = Append(@, [path |-> ft.call.path,
                                                  depth |-> ft.call.depth,
                                                  files |-> l.files, i |-> 1,
                                                  result |-> <<>>])]
  /\ UNCHANGED svars
  /\ UNCHANGED cvars

\* for (const f of files): a directory's children are built one level down
\* first; a file's node is pushed.
BuildNodeNext ==
  /\ ft.pc = "run"
  /\ ~ft.call.active
  /\ ft.stack # <<>>
  /\ LET top == ft.stack[Len(ft.stack)] IN
       /\ top.i <= Len(top.files)
       /\ IF top.files[top.i].type = "directory"
          THEN ft' = [ft EXCEPT !.call = [active |-> TRUE,
                                          path |-> top.files[top.i].path,
                                          depth |-> top.depth + 1]]
          ELSE ft' = [ft EXCEPT !.stack[Len(ft.stack)] =
                        [top EXCEPT !.result = Append(@, Node(top.files[top.i], <<>>)),
                                    !.i = @ + 1]]
  /\ UNCHANGED svars
  /\ UNCHANGED cvars

\* The loop is over: result.sort(...); return result
BuildNodeReturn ==
  /\ ft.pc = "run"
  /\ ~ft.call.active
  /\ ft.stack # <<>>
  /\ LET top == ft.stack[Len(ft.stack)] IN
       /\ top.i > Len(top.files)
       /\ ft' = Deliver([ft EXCEPT !.stack = SubSeq(@, 1, Len(@) - 1)],
                        SortNodes(top.result))
  /\ UNCHANGED svars
  /\ UNCHANGED cvars

\* ------------------------------------------------------------ specification
Init ==
  /\ conv = [c \in ConvIds |-> NewRow]
  /\ nConv = 0
  /\ sandboxes = <<>>
  /\ volumes = <<>>
  /\ post = [p \in Posts |-> IdlePost]
  /\ cb = [p \in Callbacks |-> IdleCb]
  /\ client = InitClient
  /\ submit = [k \in Submits |-> IdleSubmit]
  /\ poll = [j \in PollSlots |-> IdlePoll]
  /\ srv = [c \in ClientConvIds |-> NoRow]
  /\ now = 0
  /\ ft = IdleTree

Next ==
  \/ \E p \in Posts : Post(p)
  \/ \E p \in Callbacks : Callback(p)
  \/ \E s \in 1..Len(sandboxes) : SandboxTimeout(s)

Spec == Init /\ [][Next]_vars

\* Status Callback requests handled one at a time: a callback is taken up only
\* when no other is between its findUnique and its response.
NextSeq ==
  \/ \E p \in Posts : Post(p)
  \/ \E p \in Callbacks : CbInFlight \subseteq {p} /\ Callback(p)
  \/ \E s \in 1..Len(sandboxes) : SandboxTimeout(s)

SpecSeq == Init /\ [][NextSeq]_vars

\* The client and the server behind its requests.
NextClient ==
  \/ \E k \in Submits, content \in Contents : HandleSubmit(k, content)
  \/ \E k \in Submits : ServeSubmit(k) \/ SubmitApply(k)
  \/ \E c \in ClientConvIds : AgentLog(c)
  \/ \E c \in ClientConvIds, body \in Bodies :
       AgentCallback(c, body.status, body.errorMessage)
  \/ \E j \in PollSlots :
       PollTick(j) \/ GetReadRow(j) \/ GetReadLog(j) \/ PollApply(j) \/ PollFail(j)

SpecClient == Init /\ [][NextClient]_vars

\* The client when every poll is answered and ok, every request is served and
\* applied, the interval keeps ticking while it is set, and the agent works
\* off its input and posts its callback. When the user submits is left open
\* (what is typed does not matter to progress: one text).
NextClientOk ==
  \/ \E k \in Submits, content \in {"a"} : HandleSubmit(k, content)
  \/ \E k \in Submits : ServeSubmit(k) \/ SubmitApply(k)
  \/ \E c \in ClientConvIds : AgentLog(c)
  \/ \E c \in ClientConvIds, body \in Bodies :
       AgentCallback(c, body.status, body.errorMessage)
  \/ \E j \in PollSlots :
       PollTick(j) \/ GetReadRow(j) \/ GetReadLog(j) \/ PollApply(j)

FairClientOk ==
  /\ \A k \in Submits : WF_vars(ServeSubmit(k)) /\ WF_vars(SubmitApply(k))
  /\ \A c \in ClientConvIds :
       /\ WF_vars(AgentLog(c))
       /\ WF_vars(\E body \in Bodies :
                    AgentCallback(c, body.status, body.errorMessage))
  /\ \A j \in PollSlots :
       /\ WF_vars(PollTick(j))
       /\ WF_vars(GetReadRow(j)) /\ WF_vars(GetReadLog(j))
       /\ WF_vars(PollApply(j))

SpecClientLive == Init /\ [][NextClientOk]_vars /\ FairClientOk

\* buildFileTree on its own.
NextTree ==
  \/ CallTree \/ VolumeGet \/ BuildTreeNoVolume
  \/ BuildNodeCall \/ BuildNodeNext \/ BuildNodeReturn

\* A call that is made is run to its end.
FairTree ==
  WF_vars(VolumeGet \/ BuildTreeNoVolume \/
          BuildNodeCall \/ BuildNodeNext \/ BuildNodeReturn)

SpecTree == Init /\ [][NextTree]_vars /\ FairTree

\* ================================================================== claims
Rows == 1..nConv

\* A Status Callback request p that has been answered.
Answered(p) == cb[p].pc = "done"

\* Callback q was taken up after callback p had been answered, for the same
\* row, and the row has been written by no callback but these two.
OneAfterTheOther(p, q) ==
  /\ p \in cb[q].after
  /\ cb[p].id = cb[q].id
  /\ cb[p].wrote
  /\ \A r \in Callbacks \ {p, q} :
       cb[r].pc = "idle" \/ cb[r].id # cb[q].id \/ (Answered(r) /\ ~cb[r].wrote)

\* p's findUnique..update step in the current transition.
CallbackWrites(p) == cb[p].pc = "found" /\ cb'[p].wrote

\* ---------------------------------------------------------------------- C1
\* C1 as stated: in every reachable state, status = error implies sandboxId =
\* null and errorMessage non-null, and status = completed implies sandboxId =
\* null and errorMessage = null.
C1_Original ==
  \A c \in Rows :
    /\ conv[c].status = "error" =>
         conv[c].sandboxId = Null /\ conv[c].errorMessage # NullStr
    /\ conv[c].status = "completed" =>
         conv[c].sandboxId = Null /\ conv[c].errorMessage = NullStr

\* C1 amended: in every reachable state a row whose status is error or
\* completed has sandboxId = null; its errorMessage is null or a non-empty
\* string, with either status, and a row no callback has written (idle) has
\* errorMessage = null.
C1_TerminalHasNoSandbox ==
  \A c \in Rows :
    /\ conv[c].status \in TerminalStatuses =>
         conv[c].sandboxId = Null /\ conv[c].errorMessage # ""
    /\ conv[c].status = "idle" => conv[c].errorMessage = NullStr

\* An error row without a message and, beside it, a completed row with one.
C1_Witness ==
  \E c, d \in Rows :
    /\ conv[c].status = "error" /\ conv[c].errorMessage = NullStr
    /\ conv[d].status = "completed" /\ conv[d].errorMessage = "boom"
    /\ conv[c].sandboxId = Null /\ conv[d].sandboxId = Null

\* ---------------------------------------------------------------------- C2
\* C2 as stated: of two callbacks handled one after the other for the same
\* row with different terminal statuses, the second's status is the row's, and
\* each call attempts to terminate the remote session (the one recorded when
\* the first call came), neither answering an error because of cleanup.
C2_Original ==
  \A p, q \in Callbacks :
    (OneAfterTheOther(p, q) /\ Answered(q) /\ cb[q].wrote
       /\ cb[p].status # cb[q].status /\ cb[p].snapSandbox # Null)
    => /\ conv[cb[q].id].status \in {cb[q].status, "running"}
       /\ cb[p].killOutcome # "none" /\ cb[q].killOutcome # "none"
       /\ cb[p].resp = 200 /\ cb[q].resp = 200

\* C2 amended: the second call's status replaces the first's (the row then
\* holds it until the Conversation Endpoint marks the row running again); each
\* call attempts termination exactly when the row it read carried a sandboxId,
\* so the second attempts none when it reads the row the first one cleared;
\* and a failed termination leaves the answer at 200.
C2_LastWriteWins ==
  \A p, q \in Callbacks :
    (OneAfterTheOther(p, q) /\ Answered(q) /\ cb[q].wrote
       /\ cb[p].status # cb[q].status)
    => /\ conv[cb[q].id].status \in {cb[q].status, "running"}
       /\ \A r \in {p, q} :
            /\ cb[r].killOutcome # "none" <=> cb[r].snapSandbox # Null
            /\ cb[r].resp = 200
       /\ (cb[p].snapSandbox # Null /\ cb[q].snapSandbox = Null)
            => cb[q].killOutcome = "none"

\* Two such calls, the first having killed the sandbox it read and the second
\* having read none.
C2_Witness ==
  \E p, q \in Callbacks :
    /\ OneAfterTheOther(p, q) /\ Answered(q) /\ cb[q].wrote
    /\ cb[p].status = "completed" /\ cb[q].status = "error"
    /\ conv[cb[q].id].status = "error"
    /\ cb[p].killOutcome = "failed" /\ cb[q].killOutcome = "none"

\* ---------------------------------------------------------------------- C3
\* C3: with callbacks handled one at a time, a row's sessionId, once non-null,
\* is never null again, and a callback that supplies no sessionId (absent or
\* empty) leaves the stored sessionId as it is.
C3_SessionNeverNull ==
  [][\A c \in ConvIds :
       /\ conv[c].sessionId # NullStr => conv'[c].sessionId # NullStr
       /\ \A p \in Callbacks :
            (CallbackWrites(p) /\ cb[p].id = c /\ cb[p].sessionId \in Falsy)
            => conv'[c].sessionId = conv[c].sessionId]_vars

\* A row that holds "s1" after the callback {error, "boom"}, which carries no
\* sessionId, has written it: "s1" came from an earlier callback.
C3_Witness ==
  \E c \in Rows :
    /\ conv[c].sessionId = "s1"
    /\ conv[c].status = "error" /\ conv[c].errorMessage = "boom"

C5_SuccessDespiteKillFailure ==
  \A p \in Callbacks :
    /\ cb[p].pc = "kill" => cb[p].wrote /\ cb[p].snapSandbox # Null
    /\ cb[p].killOutcome # "none" => cb[p].wrote /\ Answered(p)
    /\ (Answered(p) /\ cb[p].wrote) => cb[p].resp = 200
    /\ cb[p].resp = 200 => cb[p].wrote
    /\ cb[p].wrote => conv[cb[p].id].status # "idle"

\* A callback answered 200 whose termination attempt failed, the sandbox
\* still running.
C5_Witness ==
  \E p \in Callbacks :
    /\ Answered(p) /\ cb[p].killOutcome = "failed" /\ cb[p].resp = 200
    /\ cb[p].snapSandbox \in Live

\* ---------------------------------------------------------------------- C6
\* C6: a callback for an id no row has is answered 404 (Conversation not
\* found) at once; it changes no row and attempts no termination.
C6_UnknownIdIs404 ==
  /\ [](\A p \in Callbacks :
          cb[p].resp = 404 =>
            Answered(p) /\ ~cb[p].wrote /\ cb[p].killOutcome = "none")
  /\ [][\A p \in Callbacks :
          (cb[p].pc = "idle" /\ cb'[p].pc # "idle")
          => IF cb'[p].id \in Rows
             THEN cb'[p].resp # 404
             ELSE /\ cb'[p].resp = 404 /\ cb'[p].pc = "done"
                  /\ conv' = conv /\ sandboxes' = sandboxes]_vars

\* A 404 answered while a row exists that has a running sandbox recorded.
C6_Witness ==
  \E p \in Callbacks, c \in Rows :
    /\ cb[p].resp = 404 /\ cb[p].id # c
    /\ conv[c].sandboxId \in Live

\* ---------------------------------------------------------------------- C7
\* C7: at every moment a conversation has at most one live remote session,
\* and with a non-null sandboxId that session is the recorded one; over all
\* interleavings of Conversation Endpoint and Status Callback requests, and
\* when a termination fails. (Read in favour of the code: a recorded session
\* that the provider has ended after its 30 minutes does not count against
\* "exactly one".)
C7_AtMostOneLiveSession ==
  \A c \in Rows :
    /\ Cardinality(LiveOf(c)) <= 1
    /\ conv[c].sandboxId # Null => LiveOf(c) \subseteq {conv[c].sandboxId}

\* ---------------------------------------------------------------------- C8
\* A request without conversationId.
IsCreate(p) == post[p].pc # "idle" /\ post[p].cid = Null

\* What a create request p has produced: a row of its own, with a volume and
\* a session that are this conversation's and no other's.
ProducedNew(p) ==
  LET c == post[p].conv
      v == conv[c].volumeId
      s == post[p].sb
  IN /\ c \in Rows
     /\ \A q \in Posts \ {p} : IsCreate(q) => post[q].conv # c
     /\ v \in 1..Len(volumes) /\ volumes[v] = c
     /\ \A d \in Rows \ {c} : conv[d].volumeId # v
     /\ post[p].created /\ s \in 1..Len(sandboxes)
     /\ sandboxes[s].conv = c /\ sandboxes[s].volume = v
     /\ \A d \in Rows \ {c} : conv[d].sandboxId # s
     /\ \A q \in Posts \ {p} : post[q].created => post[q].sb # s

\* C8 as stated: a submit with no conversationId always produces a new row
\* with a volume and a session of its own and is answered 200, running.
C8_Original ==
  \A p \in Posts :
    (IsCreate(p) /\ post[p].pc = "done")
    => post[p].resp = 200 /\ ProducedNew(p)

\* C8 amended: a submit with no conversationId that is answered 200 has
\* produced a new row with a volume and a session no other conversation has;
\* the row is running when the answer is given; and a later request that
\* sends the returned id is not answered 404.
C8_CreateAnswered200 ==
  /\ [](\A p \in Posts :
          (IsCreate(p) /\ post[p].pc = "done" /\ post[p].resp = 200)
          => ProducedNew(p))
  /\ [][\A p \in Posts :
          /\ (post[p].pc # "done" /\ post'[p].resp = 200)
             => /\ conv'[post[p].conv].status = "running"
                /\ conv'[post[p].conv].sandboxId = post[p].sb
          /\ (post[p].pc = "idle" /\ post'[p].pc # "idle"
                /\ \E q \in Posts : /\ IsCreate(q) /\ post[q].resp = 200
                                    /\ post[q].conv = post'[p].cid)
             => post'[p].resp # 404]_vars

\* Two creates answered 200: two conversations, each with a volume and a
\* running session.
C8_Witness ==
  \E p, q \in Posts :
    /\ p # q
    /\ IsCreate(p) /\ post[p].resp = 200 /\ post[p].sb \in Live
    /\ IsCreate(q) /\ post[q].resp = 200 /\ post[q].sb \in Live

\* ---------------------------------------------------------------------- C9
\* RESUME_SESSION_ID for a sessionId read from the row.
ResumeOf(sessionId) == IF sessionId = NullStr THEN "" ELSE sessionId

\* C9: a submit for an existing conversation creates no volume: a row's
\* volumeId, once assigned, never changes and no conversation ever has two
\* volumes; a follow-up works on the row's volumeId, and the session it
\* provisions mounts that volume and resumes the sessionId the request read
\* from the row.
C9_VolumeKeptSessionResumed ==
  /\ [](/\ \A i, j \in 1..Len(volumes) : volumes[i] = volumes[j] => i = j
        /\ \A p \in Posts :
             (post[p].pc = "sandbox" /\ post[p].cid # Null)
             => post[p].volumeId = conv[post[p].cid].volumeId
        /\ \A s \in 1..Len(sandboxes) :
             sandboxes[s].conv \in Rows
               /\ sandboxes[s].volume = conv[sandboxes[s].conv].volumeId)
  /\ [][/\ \A c \in ConvIds :
             conv[c].volumeId # Null => conv'[c].volumeId = conv[c].volumeId
        /\ Len(volumes') > Len(volumes) =>
             \E p \in Posts : IsCreate(p) /\ post[p].pc = "volume"
                              /\ post'[p].pc = "sandbox"
        /\ Len(sandboxes') > Len(sandboxes) =>
             \E p \in Posts :
               /\ post[p].pc = "sandbox" /\ post'[p].pc # "sandbox"
               /\ sandboxes'[Len(sandboxes')].conv = post[p].conv
               /\ sandboxes'[Len(sandboxes')].resume = ResumeOf(post[p].sessionId)]_vars

\* A follow-up's session: on the conversation's only volume, resuming "s1".
C9_Witness ==
  \E p \in Posts :
    /\ post[p].cid # Null /\ post[p].created
    /\ sandboxes[post[p].sb].resume = "s1"
    /\ sandboxes[post[p].sb].volume = conv[post[p].cid].volumeId
    /\ Len(volumes) = 1

\* --------------------------------------------------------------------- C10
\* A session has been provisioned for conversation c: a sandbox whose agent
\* was started with c's callback URL.
Provisioned(c) ==
  \E s \in 1..Len(sandboxes) : sandboxes[s].conv = c /\ sandboxes[s].agent

RECURSIVE SumStdin(_)
SumStdin(n) == IF n = 0 THEN 0 ELSE sandboxes[n].stdin + SumStdin(n - 1)
RECURSIVE SumSent(_)
SumSent(n) == IF n = 0 THEN 0 ELSE post[n].sent + SumSent(n - 1)

\* C11 as stated: every call to the Conversation Endpoint delivers exactly one
\* message into the session's input stream: every answered call has delivered
\* one, never zero.
C11_Original == \A p \in Posts : post[p].pc = "done" => post[p].sent = 1

\* C11 amended: a call answered 200 has delivered exactly one message, a call
\* answered 404 or 500 has delivered none, no call delivers more than one, and
\* the input streams hold no message that no call delivered.
C11_OneDeliveryPerAcceptedCall ==
  /\ \A p \in Posts :
       /\ post[p].sent <= 1
       /\ post[p].pc = "done" => (post[p].sent = 1 <=> post[p].resp = 200)
  /\ SumStdin(Len(sandboxes)) = SumSent(MaxPosts)

\* A call answered 200 with its one delivery, and a call
\* answered 500 after its session was provisioned, with none.
C11_Witness ==
  \E p, q \in Posts :
    /\ post[p].pc = "done" /\ post[p].resp = 200 /\ post[p].sent = 1
    /\ sandboxes[post[p].sb].stdin = 1
    /\ post[q].pc = "done" /\ post[q].resp = 500 /\ post[q].failedAt = "send"
    /\ post[q].sent = 0

\* ------------------------------------------------------------------- C13
\* C13: a row whose status is running leaves running only in the step in
\* which a Status Callback for that row writes it; no step of the
\* Conversation Endpoint and no provider timeout takes a row out of running.
C13_OnlyCallbackLeavesRunning ==
  [][\A c \in Rows :
       (conv[c].status = "running" /\ conv'[c].status # "running")
         => \E p \in Callbacks : cb[p].id = c /\ CallbackWrites(p)]_vars

\* The session of a running row has timed out, no callback was ever posted,
\* and the row is still running.
C13_Witness ==
  \E c \in Rows :
    /\ conv[c].status = "running"
    /\ conv[c].sandboxId # Null
    /\ conv[c].sandboxId \notin Live
    /\ LiveOf(c) = {}
    /\ \A p \in Callbacks : cb[p].pc = "idle"

\* ------------------------------------------------------------------- C12
\* uuid and content of the entries of a list, in its order.
Shown(list) == [i \in 1..Len(list) |-> <<list[i].uuid, list[i].content>>]
NoDuplicate(seq) ==
  \A i, k \in 1..Len(seq) : i # k => seq[i] # seq[k]
\* The step in which the client applies the ok response of poll j.
PollApplied(j) == poll[j].pc = "answered" /\ poll'[j].pc = "idle"

\* C12: when the client applies a poll response whose status is completed (or
\* error), its pending list is empty afterwards and the displayed sequence is
\* exactly the messages of that response, each entry once.
C12_TerminalPollReconciles ==
  [][\A j \in PollSlots :
       (PollApplied(j) /\ poll[j].status \in TerminalStatuses)
         => /\ client'.pendingMessages = <<>>
            /\ Shown(Messages)' = Shown(poll[j].messages)
            /\ NoDuplicate(Shown(Messages)')]_vars

\* A terminal poll was applied after a submit: the client is completed, has
\* no pending message and displays the logged message of its submit.
C12_Witness ==
  /\ client.status = "completed"
  /\ client.pendingMessages = <<>>
  /\ Len(client.serverMessages) = 1
  /\ Shown(Messages) = Shown(srv[client.conversationId].log)
  /\ \A k \in Submits : submit[k].pc \in {"idle", "done"}

\* ------------------------------------------------------------------- C14
\* The client holds a terminal status, has no pending message and no interval
\* (no tick is issued without one).
Settled ==
  /\ client.status \in TerminalStatuses
  /\ client.pendingMessages = <<>>
  /\ ~client.pollInterval

\* C14: when callbacks are processed and polls keep being answered ok, a
\* client that is running (an accepted submit, polling) eventually holds a
\* terminal status with an empty pending list and its interval cleared.
C14_RunningLeadsToSettled ==
  (client.status = "running") ~> Settled

\* The client has settled on the terminal status of its conversation's row
\* and no request of it is in flight.
C14_Witness ==
  /\ Settled
  /\ client.conversationId # Null
  /\ srv[client.conversationId].status = client.status
  /\ \A j \in PollSlots : poll[j].pc = "idle"
  /\ \A k \in Submits : submit[k].pc = "done"

\* ------------------------------------------------------------------- C15
\* The step in which a tick of the interval starts the request of slot j.
PollStarted(j) == poll[j].pc = "idle" /\ poll'[j].pc = "sent"

\* C15: the interval is set exactly when conversationId is set and the
\* client's status is running, and a poll request is started only in such a
\* state: none while the status is idle, completed or error.
C15_IntervalOnlyWhileRunning ==
  /\ [](client.pollInterval <=>
          (client.conversationId # Null /\ client.status = "running"))
  /\ [][\A j \in PollSlots :
          PollStarted(j) => /\ client.status = "running"
                            /\ client.conversationId # Null
                            /\ poll'[j].id = client.conversationId]_vars

\* The status has left running and the interval is cleared while a request
\* of an earlier tick is still in flight.
C15_Witness ==
  /\ client.status \in TerminalStatuses
  /\ ~client.pollInterval
  /\ \E j \in PollSlots : poll[j].pc # "idle"

\* ------------------------------------------------------------------- C16
\* The step in which handleSubmit call k handles its failed request.
SubmitFailed(k) ==
  submit[k].pc = "answered" /\ ~submit[k].ok /\ submit'[k].pc = "done"

\* seq without its entries whose id is the given one, the others in order.
RECURSIVE WithoutId(_, _)
WithoutId(seq, id) ==
  IF seq = <<>> THEN <<>>
  ELSE IF Head(seq).id = id THEN WithoutId(Tail(seq), id)
       ELSE <<Head(seq)>> \o WithoutId(Tail(seq), id)

\* C16: when a submit fails, the pending message that submit added (and no
\* other) leaves the pending list, the error text of the failure is stored,
\* and serverMessages, status and conversationId stay as they were.
C16_FailedSubmitRemovesOnlyItsPending ==
  [][\A k \in Submits : SubmitFailed(k) =>
       /\ client'.pendingMessages =
            WithoutId(client.pendingMessages, submit[k].pendingId)
       /\ Len(client.pendingMessages) - Len(client'.pendingMessages) <= 1
       /\ client'.errorMessage \notin Falsy
       /\ submit[k].error \notin Falsy => client'.errorMessage = submit[k].error
       /\ client'.serverMessages = client.serverMessages
       /\ client'.status = client.status
       /\ client'.conversationId = client.conversationId]_vars

\* Two submits were in flight, one has failed and is handled: the error text
\* is there and the pending message of the other submit is still listed.
C16_Witness ==
  \E k, k2 \in Submits :
    /\ submit[k].pc = "done"
    /\ submit[k2].pc \in {"sent", "answered"}
    /\ Len(client.pendingMessages) = 1
    /\ client.pendingMessages[1].id = submit[k2].pendingId
    /\ client.errorMessage \notin Falsy
    /\ client.conversationId = Null

\* ------------------------------------------------------------------- C17
\* C17: the displayed sequence is serverMessages in its order followed by the
\* pending messages in the order of their submits (ascending timestamp): no
\* pending message stands before a confirmed one.
C17_ConfirmedThenPendingInOrder ==
  LET sm == client.serverMessages
      pm == client.pendingMessages
  IN  /\ Len(Messages) = Len(sm) + Len(pm)
      /\ \A i \in 1..Len(sm) :
           Messages[i].type = "server" /\ Messages[i].uuid = sm[i].uuid
      /\ \A i \in 1..Len(pm) :
           /\ Messages[Len(sm) + i].type = "user"
           /\ Messages[Len(sm) + i].uuid = pm[i].id
           /\ Messages[Len(sm) + i].content = pm[i].content
      /\ \A i, k \in 1..Len(pm) : i < k => pm[i].timestamp < pm[k].timestamp
      /\ \A i, k \in 1..Len(Messages) :
           (Messages[i].type = "user" /\ Messages[k].type = "server") => k < i

\* A confirmed message of the first submit is displayed, followed by the
\* pending message of the second.
C17_Witness ==
  /\ Len(client.serverMessages) >= 1
  /\ Len(client.pendingMessages) >= 1
  /\ Messages[1].type = "server"
  /\ Messages[Len(Messages)].type = "user"
  /\ Messages[Len(Messages)].uuid # client.serverMessages[1].of

\* ------------------------------------------------------------------- C18
\* C18: the displayed sequence never shows one submitted message both as a
\* confirmed entry and as a pending entry: no pending message is still listed
\* once serverMessages holds the log entry of its submit.
C18_NeverConfirmedAndPending ==
  \A i \in 1..Len(client.pendingMessages),
     k \in 1..Len(client.serverMessages) :
    client.serverMessages[k].of # client.pendingMessages[i].id

\* ------------------------------------------------------------------- C19
\* The steps in which handleSubmit call k starts its request and handles the
\* response.
SubmitStarted(k) == submit[k].pc = "idle" /\ submit'[k].pc = "sent"
SubmitApplied(k) == submit[k].pc = "answered" /\ submit'[k].pc = "done"

\* C19: the client's status changes only when an ok poll response is applied
\* (to the status the response carries) or when a submit that the endpoint
\* accepted is handled (to running). A terminal status comes from a poll
\* response only; starting a submit or handling a failed one sets no status.
C19_StatusOnlyByPollOrAcceptedSubmit ==
  [][/\ client'.status # client.status =>
          \/ \E j \in PollSlots :
               PollApplied(j) /\ client'.status = poll[j].status
          \/ \E k \in Submits :
               SubmitApplied(k) /\ submit[k].ok /\ client'.status = "running"
     /\ (client'.status \in TerminalStatuses /\ client'.status # client.status)
          => \E j \in PollSlots :
               PollApplied(j) /\ poll[j].status = client'.status
     /\ \A k \in Submits :
          /\ SubmitStarted(k) => client'.status = client.status
          /\ SubmitApplied(k) =>
               client'.status = IF submit[k].ok THEN "running"
                                ELSE client.status]_vars

\* A follow-up submit has failed after the conversation completed: the error
\* text of the submit is stored and the status is still completed.
C19_Witness ==
  /\ client.status = "completed"
  /\ client.errorMessage = "Failed to send message"
  /\ client.conversationId # Null
  /\ \A k \in Submits : submit[k].pc = "done"

\* ------------------------------------------------------------------- C20
\* C20: once the client's status is completed or error, no step other than
\* the handling of an accepted submit sets it back to running or replaces
\* serverMessages by a shorter (older) list of the log.
C20_TerminalIsStable ==
  [][(/\ client.status \in TerminalStatuses
      /\ ~\E k \in Submits : SubmitApplied(k) /\ submit[k].ok)
       => /\ client'.status # "running"
          /\ Len(client'.serverMessages) >= Len(client.serverMessages)]_vars

\* ------------------------------------------------------------------- C21
\* C21: with callbacks for one row interleaved between their findUnique and
\* their update, the update of a callback never replaces a non-null sessionId
\* of the row (written by the other callback since its read) by null.
C21_InterleavedKeepSession ==
  [][\A p \in Callbacks :
       (CallbackWrites(p) /\ conv[cb[p].id].sessionId # NullStr)
         => conv'[cb[p].id].sessionId # NullStr]_vars

\* ------------------------------------------------------------------- C22
\* Callback p was posted by an earlier session of its row than the live one
\* that the row records now.
FromEarlierSession(p) ==
  /\ cb[p].pc \in {"found", "kill"}
  /\ cb[p].from # Null
  /\ conv[cb[p].id].sandboxId # Null
  /\ cb[p].from < conv[cb[p].id].sandboxId
  /\ conv[cb[p].id].sandboxId \in Live

\* C22: a step of a callback posted by an earlier session, taken when a
\* follow-up has provisioned a new session that the row records and that is
\* live, leaves the row's sandboxId, leaves the new session live, and leaves
\* a running row running.
C22_StaleCallbackSparesNewSession ==
  [][\A p \in Callbacks :
       (FromEarlierSession(p) /\ cb'[p] # cb[p])
         => LET c == cb[p].id
                s == conv[c].sandboxId
            IN  /\ conv'[c].sandboxId = s
                /\ s \in {t \in 1..Len(sandboxes') : sandboxes'[t].alive}
                /\ conv[c].status = "running" => conv'[c].status = "running"]_vars

\* ------------------------------------------------------------------- C23
\* The pending messages whose submit was accepted and handled: those of no
\* handleSubmit call that still waits for its response. (A failed submit's
\* message is no longer pending.)
SucceededPending ==
  {i \in 1..Len(client.pendingMessages) :
     \A k \in Submits :
       submit[k].pc \in {"sent", "answered"}
         => submit[k].pendingId # client.pendingMessages[i].id}

\* C23: when the client applies a poll response with a terminal status (and
\* stops polling), every pending message of a succeeded submit that it clears
\* has its log entry in the list of that response: the confirmed list then
\* contains every message whose submit succeeded.
C23_ClearedPendingIsConfirmed ==
  [][\A j \in PollSlots :
       (PollApplied(j) /\ poll[j].status \in TerminalStatuses)
         => \A i \in SucceededPending :
              \E k \in 1..Len(poll[j].messages) :
                poll[j].messages[k].of = client.pendingMessages[i].id]_vars

\* ------------------------------------------------------------------- C24
\* The step in which the request of slot j fails.
PollFailed(j) == poll[j].pc \in {"sent", "half"} /\ poll'[j].pc = "idle"

\* C24: a failed poll leaves serverMessages, pendingMessages, status,
\* errorMessage and conversationId as they were and the interval as it was:
\* if it is set, a slot is free for the next tick.
C24_FailedPollChangesNothing ==
  [][\A j \in PollSlots : PollFailed(j) =>
       /\ client'.serverMessages = client.serverMessages
       /\ client'.pendingMessages = client.pendingMessages
       /\ client'.status = client.status
       /\ client'.errorMessage = client.errorMessage
       /\ client'.conversationId = client.conversationId
       /\ client'.pollInterval = client.pollInterval
       /\ client.pollInterval => \E i \in PollSlots : poll'[i].pc = "idle"]_vars

\* A poll has failed while the client was running with a pending message:
\* the client is still running with it, the interval is set, and the next
\* tick's request is on its way.
C24_Witness ==
  \E i, j \in PollSlots :
    /\ poll[j].failed
    /\ poll[i].pc = "sent"
    /\ client.status = "running"
    /\ client.pollInterval
    /\ Len(client.pendingMessages) = 1

\* ------------------------------------------------------------------- C25
\* The nodes of a tree with the depth of the listing that produced each.
RECURSIVE TreeNodes(_, _)
TreeNodes(tree, depth) ==
  UNION {{[node |-> tree[i], depth |-> depth]} \cup
         TreeNodes(tree[i].children, depth + 1) : i \in 1..Len(tree)}

ReturnedNodes == TreeNodes(ft.result, 0)

\* C25: every call of buildFileTree comes to an end; no buildNode call lists
\* a directory at a depth past maxDepth; and in the tree returned, a
\* directory found by the listing at depth maxDepth has an empty children
\* list, a directory whose listing rejects has an empty children list, and
\* every other directory has its children built all the same.
C25_BoundedDepthAndFailedListings ==
  /\ [](/\ \A d \in ft.listed : d <= ft.maxDepth
        /\ \A i \in 1..Len(ft.stack) : ft.stack[i].depth <= ft.maxDepth
        /\ ft.pc = "returned" =>
             /\ \A n \in ReturnedNodes :
                  /\ n.depth <= ft.maxDepth
                  /\ (n.node.type = "directory" /\ n.depth + 1 > ft.maxDepth)
                       => n.node.children = <<>>
                  /\ (n.node.type = "directory" /\ n.node.path \in ft.fail)
                       => n.node.children = <<>>
                  /\ (n.node.type = "directory" /\ n.node.path \notin ft.fail
                      /\ n.depth < ft.maxDepth)
                       => Len(n.node.children) = Len(ft.shape)
             /\ (<<>> \in ft.fail) => ft.result = <<>>
             /\ (<<>> \notin ft.fail) => Len(ft.result) = Len(ft.shape))
  /\ (ft.pc = "get" ~> ft.pc \in {"returned", "rejected"})

\* A returned tree with a directory cut off at maxDepth, a directory whose
\* listing rejected, and beside it a directory whose children were built.
C25_Witness ==
  /\ ft.pc = "returned"
  /\ ft.maxDepth = 1
  /\ \E n \in ReturnedNodes :
       n.node.type = "directory" /\ n.depth = 1 /\ n.node.path \notin ft.fail
       /\ n.node.children = <<>>
  /\ \E n, m \in ReturnedNodes :
       /\ n.depth = 0 /\ m.depth = 0
       /\ n.node.type = "directory" /\ n.node.path \in ft.fail
       /\ n.node.children = <<>>
       /\ m.node.type = "directory" /\ m.node.children # <<>>

\* ------------------------------------------------------------------- C26
\* The levels of a tree: the tree itself and, level by level, the children
\* of its directories.
RECURSIVE TreeLevels(_)
TreeLevels(tree) ==
  {tree} \cup UNION {TreeLevels(tree[i].children) : i \in 1..Len(tree)}

\* No file before a directory, and names ascending (in the order of
\* localeCompare) among the directories and among the files.
LevelOrdered(level) ==
  \A i, k \in 1..Len(level) :
    i < k =>
      /\ ~(level[i].type # "directory" /\ level[k].type = "directory")
      /\ ((level[i].type = "directory") = (level[k].type = "directory"))
           => LocaleRank[level[i].name] < LocaleRank[level[k].name]

\* C26: at every level of the tree buildFileTree returns, the directories
\* come before the files, and the directories and the files are each in
\* ascending name order; every level holds each listed entry once.
C26_LevelsDirectoriesFirstThenByName ==
  ft.pc = "returned" =>
    \A level \in TreeLevels(ft.result) :
      /\ LevelOrdered(level)
      /\ level # <<>> =>
           {[name |-> level[i].name, type |-> level[i].type] :
              i \in 1..Len(level)}
           = {ft.shape[i] : i \in 1..Len(ft.shape)}

\* A returned tree of two levels and more whose listings came with a file
\* ahead of a directory and with names out of order.
C26_Witness ==
  /\ ft.pc = "returned"
  /\ Len(ft.shape) >= 3
  /\ ft.shape[1].type = "file" /\ ft.shape[2].type = "directory"
  /\ ft.shape[3].type = "directory"
  /\ LocaleRank[ft.shape[3].name] < LocaleRank[ft.shape[2].name]
  /\ \E i \in 1..Len(ft.result) : Len(ft.result[i].children) >= 3
  /\ ~LevelOrdered([i \in 1..Len(ft.shape) |->
                      Node([name |-> ft.shape[i].name, type |-> ft.shape[i].type,
                            path |-> <<ft.shape[i].name>>], <<>>)])

====
